---- MODULE Spec2Model ----
(***************************************************************************)
(* ipfs-backup: the sync script (src/src/index.ts) as a state machine.     *)
(*                                                                         *)
(* index.ts holds two generations of the script that share one engine:     *)
(*   "Database" (lines 420-678): symmetric variant, aes192 with a key      *)
(*              derived from PASSWORD and a salt, salt and iv in db.json;  *)
(*   "Db"       (lines 1-215):   asymmetric variant, openpgp key pair,     *)
(*              db.json is the bare entries array.                         *)
(* The variable `variant` selects the generation for a whole behaviour.    *)
(*                                                                         *)
(* A run is one execution of the script's main: createDb, sync(files),     *)
(* downloadAll(), save.  Every await of a remote call is a step of its     *)
(* own, so that a failure or a kill of the process between two calls is a  *)
(* state of the model.                                                     *)
(***************************************************************************)
EXTENDS Integers, Sequences, FiniteSets, TLC

(* ------------------------------ bounds --------------------------------- *)
MaxRuns == 2        \* runs of the script in one behaviour

(* --------------------------- value domains ----------------------------- *)

\* The paths that appear in FILES_CONFIG and db.json.
Files == {"a.txt", "b.txt"}

\* A file's bytes as fs.readFileSync returns them: the empty file and two
\* one-byte files.
Contents == {<< >>, <<1>>, <<2>>}

\* fs.existsSync(path) = false
Absent == <<0 - 1>>

\* The bytes of the text "undefined": what '' + undefined writes.
UndefinedText == <<117, 110, 100, 101, 102, 105, 110, 101, 100>>

\* Values of PASSWORD in .env over the runs.
Passwords == {"pw", "other pw"}

\* crypto.randomBytes(2).toString("hex")
Salts == {"5a3c"}

\* crypto.randomBytes(8).toString("hex")
Ivs == {"0011223344556677"}

\* Session keys openpgp draws (Db variant).
Nonces == {1, 2}

RECURSIVE SeqsUpTo(_, _)
SeqsUpTo(S, n) ==
    IF n = 0 THEN {<< >>}
    ELSE LET shorter == SeqsUpTo(S, n - 1)
         IN  shorter \cup {Append(s, x) : s \in {t \in shorter : Len(t) = n - 1}, x \in S}

\* JSON.parse(FILES_CONFIG): an ordered list of paths, repetitions allowed.
TrackedLists == SeqsUpTo(Files, Cardinality(Files))

VARIABLES
    variant,    \* "Database" or "Db": which generation of the script runs
    fs,         \* local file system: path -> content, or Absent
    disk,       \* db.json
    pinned,     \* CIDs pinned on the IPFS node
    pc,         \* position of the running script; "idle" when none runs
    status,     \* how the last run ended / "running"
    runs,       \* runs started so far
    files,      \* main's `files`
    password,   \* environment.PASSWORD of the run
    salt,       \* DatabaseFactory.salt
    iv,         \* DatabaseFactory.iv / Database.iv
    entries,    \* Database.entries (in memory)
    nextId,     \* Database.nextId
    i,          \* sync's position in `files`
    j,          \* downloadAll's position in `entries`
    calls,      \* operations issued for the item being processed (history)
    pending,    \* clean-db: the dispatched pin.rm calls not yet settled
    lastFiles   \* history: `files` of the run that completed last, while no
                \* local file was edited since and no other run was started

vars == <<variant, fs, disk, pinned, pc, status, runs, files, password, salt,
          iv, entries, nextId, i, j, calls, pending, lastFiles>>

(* ------------------------- pure functions ------------------------------ *)

\* Database.calculateHash / SHA256(content.toString("binary")): a digest,
\* taken as collision free.
calculateHash(content) == [sha256 |-> content]

\* crypto.scryptSync(password, salt, 24)
scryptSync(pw, s) == <<pw, s>>

\* The key pair read from .keys/ (Db variant) as a key value.
PgpKey == <<"private.key", "public.key">>

\* Database.encrypt: aes192 under (key, iv), hex text.  The cipher is taken
\* as ideal: the ciphertext determines, and is determined by, key, iv and
\* plaintext.
encryptAes(content, k, v) ==
    [alg |-> "aes192", key |-> k, iv |-> v, nonce |-> 0, pt |-> content]

\* Db.encrypt: openpgp.encrypt under the public key with a fresh session key.
encryptPgp(content, n) ==
    [alg |-> "pgp", key |-> PgpKey, iv |-> "", nonce |-> n, pt |-> content]

\* aes192 block size in bytes.
BlockSize == 16

\* The chunks a Decipher stream makes readable for a plaintext: update()
\* yields the whole blocks held back before the last one, final() the rest;
\* an empty Buffer is never pushed.
DecipherChunks(pt) ==
    LET n     == Len(pt)
        cut   == IF n = 0 THEN 0
                 ELSE IF n % BlockSize = 0 THEN n - BlockSize
                 ELSE n - (n % BlockSize)
        first == SubSeq(pt, 1, cut)
        rest  == SubSeq(pt, cut + 1, n)
    IN  (IF first = << >> THEN << >> ELSE <<first>>) \o
        (IF rest = << >> THEN << >> ELSE <<rest>>)

RECURSIVE Concat(_)
Concat(chunks) ==
    IF chunks = << >> THEN << >> ELSE Head(chunks) \o Concat(Tail(chunks))

\* Database.decrypt(content): [err] the decipher raised an error (wrong key or
\* iv: bad decrypt); otherwise the promise resolves with `decrypted`, which is
\* only assigned when a chunk was read: [defined] tells whether it was.
decryptAes(payload, k, v) ==
    IF payload.alg # "aes192" \/ payload.key # k \/ payload.iv # v
    THEN [err |-> TRUE, defined |-> FALSE, data |-> << >>]
    ELSE LET chunks == DecipherChunks(payload.pt)
         IN  [err |-> FALSE, defined |-> chunks # << >>, data |-> Concat(chunks)]

\* Db.decrypt(armored): openpgp.decrypt with the private key, format binary;
\* Buffer.from(decrypted.data) is defined for every plaintext.
decryptPgp(payload) ==
    IF payload.alg # "pgp" \/ payload.key # PgpKey
    THEN [err |-> TRUE, defined |-> FALSE, data |-> << >>]
    ELSE [err |-> FALSE, defined |-> TRUE, data |-> payload.pt]

\* this.encrypt(content) of the running variant; n is the session key drawn.
encrypt(content, n) ==
    IF variant = "Database" THEN encryptAes(content, scryptSync(password, salt), iv)
    ELSE encryptPgp(content, n)

\* this.decrypt(payload) of the running variant.
decrypt(payload) ==
    IF variant = "Database" THEN decryptAes(payload, scryptSync(password, salt), iv)
    ELSE decryptPgp(payload)

\* The session keys encrypt may draw.
NonceChoices == IF variant = "Db" THEN Nonces ELSE {0}

\* ipfsClient.add(...).cid: the content address of the payload.
CidOf(payload) == [ipfs |-> payload]

\* ipfsClient.cat(cid): the payload stored under a content address.
PayloadAt(cid) == cid.ipfs

\* The plaintext whose encrypted form is stored under cid.
PlaintextAt(cid) == PayloadAt(cid).pt

(* --------------------------- manifest ---------------------------------- *)

NoDb == [exists |-> FALSE, salt |-> "", iv |-> "", entries |-> << >>]

Range(s) == {s[k] : k \in 1..Len(s)}

\* entries.findIndex(p): first index satisfying p, 0 for -1.
FindFilename(es, f) ==
    IF \E k \in 1..Len(es) : es[k].filename = f
    THEN CHOOSE k \in 1..Len(es) :
            es[k].filename = f /\ \A m \in 1..(k - 1) : es[m].filename # f
    ELSE 0

\* entries.find((i) => i.id === id): index of the first entry with that id.
FindId(es, id) ==
    IF \E k \in 1..Len(es) : es[k].id = id
    THEN CHOOSE k \in 1..Len(es) :
            es[k].id = id /\ \A m \in 1..(k - 1) : es[m].id # id
    ELSE 0

\* The reducer of Database's constructor.
DatabaseReducer(id, entry) == IF id < entry.id THEN entry.id ELSE id + 1

\* The reducer of Db's constructor.
DbReducer(id, entry) == IF id < entry.id THEN entry.id ELSE id

RECURSIVE Reduce(_, _, _)
Reduce(es, id, v) ==
    IF es = << >> THEN id
    ELSE Reduce(Tail(es),
                IF v = "Database" THEN DatabaseReducer(id, Head(es))
                ELSE DbReducer(id, Head(es)),
                v)

\* this.nextId as the constructor sets it: entries.reduce(reducer, 1).
InitialNextId(es, v) == Reduce(es, 1, v)


(* ----------------------------- state ----------------------------------- *)

\* No completed run to compare the next run with.
NoLast == <<"?">>

\* Before the first run: no db.json, nothing pinned, any local files.
InitWith(v) ==
    /\ variant = v
    /\ fs \in [Files -> Contents \cup {Absent}]
    /\ disk = NoDb
    /\ pinned = {}
    /\ pc = "idle"
    /\ status = "none"
    /\ runs = 0
    /\ files = << >>
    /\ password = ""
    /\ salt = ""
    /\ iv = ""
    /\ entries = << >>
    /\ nextId = 0
    /\ i = 0
    /\ j = 0
    /\ calls = << >>
    /\ pending = {}
    /\ lastFiles = NoLast

Init == InitWith("Database")

InitDb == InitWith("Db")

\* The entries a first run of the symmetric script saves when it tracked the
\* list fl (no path twice), all of whose files existed with the contents c0:
\* one Add per path, ids from 1.
PriorEntries(fl, c0, pw, s, v) ==
    [k \in 1..Len(fl) |->
        [hash |-> calculateHash(c0[fl[k]]),
         cid |-> CidOf(encryptAes(c0[fl[k]], scryptSync(pw, s), v)),
         id |-> k,
         filename |-> fl[k]]]

\* Some time after a first run completed: its db.json is on disk, what it
\* put is pinned, and the user has since edited or deleted local files at
\* will.  `runs` counts the runs from here on.
InitLater ==
    /\ variant = "Database"
    /\ fs \in [Files -> Contents \cup {Absent}]
    /\ \E fl \in {l \in TrackedLists : \A k, m \in 1..Len(l) : k # m => l[k] # l[m]},
          c0 \in [Files -> Contents], pw \in Passwords, s \in Salts, v \in Ivs :
          /\ disk = [exists |-> TRUE, salt |-> s, iv |-> v,
                     entries |-> PriorEntries(fl, c0, pw, s, v)]
          /\ pinned = {e.cid : e \in Range(disk.entries)}
    /\ pc = "idle"
    /\ status = "completed"
    /\ runs = 0
    /\ files = << >>
    /\ password = ""
    /\ salt = ""
    /\ iv = ""
    /\ entries = << >>
    /\ nextId = 0
    /\ i = 0
    /\ j = 0
    /\ calls = << >>
    /\ pending = {}
    /\ lastFiles = NoLast

\* The process is gone: its memory with it.
ProcessEnds(st) ==
    /\ pc' = "idle"
    /\ status' = st
    /\ files' = << >>
    /\ password' = ""
    /\ salt' = ""
    /\ iv' = ""
    /\ entries' = << >>
    /\ nextId' = 0
    /\ i' = 0
    /\ j' = 0
    /\ lastFiles' = IF st = "completed" THEN files ELSE NoLast
    /\ UNCHANGED pending

\* One entry of the history of the item being processed.
Call(op, cid, ok) == [op |-> op, cid |-> cid, ok |-> ok]

(* ------------------------- the environment ----------------------------- *)

\* Between two runs the user creates, edits or deletes a local file.
EnvSet(f, c) ==
    /\ pc = "idle"
    /\ runs < MaxRuns
    /\ fs[f] # c
    /\ fs' = [fs EXCEPT ![f] = c]
    /\ lastFiles' = NoLast
    /\ UNCHANGED <<pending, variant, disk, pinned, pc, status, runs, files, password,
                   salt, iv, entries, nextId, i, j, calls>>

\* The process is killed (or the machine stops) at any point of a run.
Crash ==
    /\ pc # "idle"
    /\ ProcessEnds("crashed")
    /\ UNCHANGED <<variant, fs, disk, pinned, runs, calls>>

(* ------------------------------ main ----------------------------------- *)

\* The salt and iv createDb draws for a new db.json (Database variant only).
\* crypto.randomBytes draws a value that no earlier run drew: the draws of
\* the successive runs.
SaltDraws == <<"5a3c", "c7e1", "04bd">>

IvDraws == <<"0011223344556677", "8899aabbccddeeff", "0f1e2d3c4b5a6978">>

\* The draw of the run about to start.
DrawIndex == (runs % Len(SaltDraws)) + 1

SaltChoices ==
    IF variant = "Database" /\ ~disk.exists THEN {SaltDraws[DrawIndex]} ELSE {""}

IvChoices ==
    IF variant = "Database" /\ ~disk.exists THEN {IvDraws[DrawIndex]} ELSE {""}

\* environment.PASSWORD (the Db variant reads none).
PasswordChoices == IF variant = "Database" THEN Passwords ELSE {""}

\* DatabaseFactory.createDb / DbFactory.createDb: the entries the run starts with.
LoadedEntries == IF disk.exists THEN disk.entries ELSE << >>

\* Mutant of SaltOfRun: a salt is generated in every run.
SaltOfRunRegenerated(s) == IF variant = "Database" THEN SaltDraws[DrawIndex] ELSE s

\* DatabaseFactory.salt after createDb: the salt of db.json, or the one drawn.
SaltOfRun(s) == IF variant = "Database" /\ disk.exists THEN disk.salt ELSE s

\* DatabaseFactory.iv after createDb: the iv of db.json, or the one drawn.
IvOfRun(v) == IF variant = "Database" /\ disk.exists THEN disk.iv ELSE v

\* main up to the call of sync: read FILES_CONFIG, createDb(password).
Start(fl, pw, s, v) ==
    /\ pc = "idle"
    /\ runs < MaxRuns
    /\ runs' = runs + 1
    /\ files' = fl
    /\ password' = pw
    /\ salt' = SaltOfRun(s)
    /\ iv' = IvOfRun(v)
    /\ entries' = LoadedEntries
    /\ nextId' = InitialNextId(LoadedEntries, variant)
    /\ i' = 1
    /\ j' = 0
    /\ pc' = "sync"
    /\ status' = "running"
    /\ calls' = << >>
    /\ lastFiles' = IF fl = lastFiles THEN lastFiles ELSE NoLast
    /\ UNCHANGED <<pending, variant, fs, disk, pinned>>

(* ------------------------------ sync ----------------------------------- *)

\* The path sync is at.
File == files[i]

\* Mutant of EIdx: the path looked up among the entries of db.json only.
EIdxAmongLoaded == FindFilename(disk.entries, File)

\* eIdx of sync: the entry with the path's filename.
EIdx == FindFilename(entries, File)

\* Mutant of ItemIdx: the id used as a position in the array, entries[id].
ItemIdxAsPosition ==
    IF entries[EIdx].id + 1 <= Len(entries) THEN entries[EIdx].id + 1 ELSE 0

\* `item` of update(this.entries[eIdx].id, ...): found by id.
ItemIdx == FindId(entries, entries[EIdx].id)

\* Mutant of H: the digest of the first tracked path's content.
HOfFirstPath == calculateHash(fs[files[1]])

\* `h` of add and update.
H == calculateHash(fs[File])

\* if (!this.fileExists(file)) continue
SyncMissing ==
    /\ pc = "sync"
    /\ i <= Len(files)
    /\ fs[File] = Absent
    /\ i' = i + 1
    /\ calls' = << >>
    /\ UNCHANGED <<pending, lastFiles, variant, fs, disk, pinned, pc, status, runs, files,
                   password, salt, iv, entries, nextId, j>>

\* eIdx === -1: add(file) runs up to its ipfsClient.add.
SyncAdd ==
    /\ pc = "sync"
    /\ i <= Len(files)
    /\ fs[File] # Absent
    /\ EIdx = 0
    /\ pc' = "add_put"
    /\ calls' = << >>
    /\ UNCHANGED <<pending, lastFiles, variant, fs, disk, pinned, status, runs, files, password,
                   salt, iv, entries, nextId, i, j>>

\* update returns at once: item == null || h === item.hash.
SyncUnchanged ==
    /\ pc = "sync"
    /\ i <= Len(files)
    /\ fs[File] # Absent
    /\ EIdx # 0
    /\ IF ItemIdx = 0 THEN TRUE ELSE H = entries[ItemIdx].hash
    /\ i' = i + 1
    /\ calls' = << >>
    /\ UNCHANGED <<pending, lastFiles, variant, fs, disk, pinned, pc, status, runs, files,
                   password, salt, iv, entries, nextId, j>>

\* update goes on: it encrypts and reaches its pin.rm.
SyncChanged ==
    /\ pc = "sync"
    /\ i <= Len(files)
    /\ fs[File] # Absent
    /\ EIdx # 0
    /\ ItemIdx # 0
    /\ H # entries[ItemIdx].hash
    /\ pc' = "upd_unpin"
    /\ calls' = << >>
    /\ UNCHANGED <<pending, lastFiles, variant, fs, disk, pinned, status, runs, files, password,
                   salt, iv, entries, nextId, i, j>>

\* The loop of sync is over: main goes on to downloadAll.
SyncEnd ==
    /\ pc = "sync"
    /\ i > Len(files)
    /\ pc' = "download"
    /\ j' = 1
    /\ calls' = << >>
    /\ UNCHANGED <<pending, lastFiles, variant, fs, disk, pinned, status, runs, files, password,
                   salt, iv, entries, nextId, i>>

\* Mutant of SyncThrows: the error is swallowed where it is raised, and the
\* code after the failed call goes on.
SyncGoesOn ==
    /\ pc' = IF pc = "upd_unpin" THEN "upd_put" ELSE "sync"
    /\ i' = IF pc = "upd_unpin" THEN i ELSE i + 1
    /\ UNCHANGED <<status, files, password, salt, iv, entries, nextId, j,
                   pending, lastFiles>>

\* An error thrown inside add or update: sync has no try/catch and neither
\* has main, so the promise of main rejects and the process ends.
SyncThrows == ProcessEnds("aborted")

\* Mutant of NewItem: the hash taken of an empty buffer, not of the content.
NewItemHashOfNothing(cid) ==
    [hash |-> calculateHash(<< >>), cid |-> cid, id |-> nextId, filename |-> File]

\* The entry add builds.
NewItem(cid) == [hash |-> H, cid |-> cid, id |-> nextId, filename |-> File]

\* add: ipfsClient.add resolves; the item is built and appended.
AddPut(n) ==
    /\ pc = "add_put"
    /\ LET cid == CidOf(encrypt(fs[File], n))
       IN  /\ pinned' = pinned \cup {cid}
           /\ entries' = Append(entries, NewItem(cid))
           /\ calls' = Append(calls, Call("put", cid, TRUE))
    /\ nextId' = nextId + 1
    /\ i' = i + 1
    /\ pc' = "sync"
    /\ UNCHANGED <<pending, lastFiles, variant, fs, disk, status, runs, files, password, salt, iv, j>>

\* add: ipfsClient.add rejects.
AddPutFails(n) ==
    /\ pc = "add_put"
    /\ calls' = Append(calls, Call("put", CidOf(encrypt(fs[File], n)), FALSE))
    /\ SyncThrows
    /\ UNCHANGED <<variant, fs, disk, pinned, runs>>

\* update: ipfsClient.pin.rm(item.cid) resolves.
UpdateUnpin ==
    /\ pc = "upd_unpin"
    /\ pinned' = pinned \ {entries[ItemIdx].cid}
    /\ calls' = Append(calls, Call("unpin", entries[ItemIdx].cid, TRUE))
    /\ pc' = "upd_put"
    /\ UNCHANGED <<pending, lastFiles, variant, fs, disk, status, runs, files, password, salt, iv,
                   entries, nextId, i, j>>

\* update: ipfsClient.pin.rm rejects.
UpdateUnpinFails ==
    /\ pc = "upd_unpin"
    /\ calls' = Append(calls, Call("unpin", entries[ItemIdx].cid, FALSE))
    /\ SyncThrows
    /\ UNCHANGED <<variant, fs, disk, pinned, runs>>

\* Mutant of UpdatedItem: item.hash = h left out.
UpdatedItemKeepsHash(item, cid) == [item EXCEPT !.cid = cid]

\* item.cid = cid; item.hash = h
UpdatedItem(item, cid) == [item EXCEPT !.cid = cid, !.hash = H]

\* update: ipfsClient.add resolves; item.cid and item.hash are overwritten.
UpdatePut(n) ==
    /\ pc = "upd_put"
    /\ LET cid == CidOf(encrypt(fs[File], n))
       IN  /\ pinned' = pinned \cup {cid}
           /\ entries' = [entries EXCEPT ![ItemIdx] = UpdatedItem(entries[ItemIdx], cid)]
           /\ calls' = Append(calls, Call("put", cid, TRUE))
    /\ i' = i + 1
    /\ pc' = "sync"
    /\ UNCHANGED <<pending, lastFiles, variant, fs, disk, status, runs, files, password, salt, iv,
                   nextId, j>>

\* update: ipfsClient.add rejects, after the pin.rm went through.
UpdatePutFails(n) ==
    /\ pc = "upd_put"
    /\ calls' = Append(calls, Call("put", CidOf(encrypt(fs[File], n)), FALSE))
    /\ SyncThrows
    /\ UNCHANGED <<variant, fs, disk, pinned, runs>>


(* --------------------------- downloadAll ------------------------------- *)

\* The entry downloadAll is at.
Entry == entries[j]

\* What await this.decrypt(...) yields for the entry's payload.
Decrypted == decrypt(PayloadAt(Entry.cid))

\* How the body of the try block can go for an entry:
\*  get_fails            ipfsClient.cat / all() rejects;
\*  decrypt_rejects      the decipher's error is thrown inside decrypt's promise
\*                       executor (streams that emit 'error' synchronously) or
\*                       openpgp.decrypt rejects: the await throws;
\*  decrypt_error_event  the decipher emits 'error' on a later tick: decrypt
\*                       registers no 'error' listener and never rejects, so
\*                       the event is an uncaught exception;
\*  write_throws         decrypt resolved undefined and fs.writeFileSync
\*                       refuses it (ERR_INVALID_ARG_TYPE);
\*  write_coerces        decrypt resolved undefined and fs.writeFileSync
\*                       writes '' + undefined (older fs);
\*  written              the decrypted Buffer is written.
DownloadOutcomes ==
    {"get_fails"} \cup
    (IF Decrypted.err
     THEN (IF variant = "Database"
           THEN {"decrypt_rejects", "decrypt_error_event"}
           ELSE {"decrypt_rejects"})
     ELSE IF ~Decrypted.defined THEN {"write_throws", "write_coerces"}
     ELSE {"written"})

OutcomeKinds ==
    {"get_fails", "decrypt_rejects", "decrypt_error_event", "write_throws",
     "write_coerces", "written"}

\* Mutant of LocalCopyExists: the check left out.
LocalCopyNeverExists == FALSE

\* fs.existsSync(entry.filename)
LocalCopyExists == fs[Entry.filename] # Absent

\* if (fs.existsSync(entry.filename)) continue
DownloadSkip ==
    /\ pc = "download"
    /\ j <= Len(entries)
    /\ LocalCopyExists
    /\ j' = j + 1
    /\ calls' = << >>
    /\ UNCHANGED <<pending, lastFiles, variant, fs, disk, pinned, pc, status, runs, files,
                   password, salt, iv, entries, nextId, i>>

\* The try block for an entry whose file is absent: cat, decrypt, writeFileSync;
\* whatever is thrown inside is caught and logged, and the loop goes on.
DownloadEntry(o) ==
    /\ pc = "download"
    /\ j <= Len(entries)
    /\ ~LocalCopyExists
    /\ o \in DownloadOutcomes
    /\ calls' = IF o = "get_fails"
                THEN <<Call("get", Entry.cid, FALSE)>>
                ELSE <<Call("get", Entry.cid, TRUE),
                       Call("decrypt", Entry.cid, ~Decrypted.err)>>
    /\ fs' = IF o = "written" THEN [fs EXCEPT ![Entry.filename] = Decrypted.data]
             ELSE IF o = "write_coerces"
             THEN [fs EXCEPT ![Entry.filename] = UndefinedText]
             ELSE fs
    /\ IF o = "decrypt_error_event"
       THEN ProcessEnds("uncaught")
       ELSE /\ j' = j + 1
            /\ UNCHANGED <<pc, status, files, password, salt, iv, entries,
                           nextId, i, pending, lastFiles>>
    /\ UNCHANGED <<variant, disk, pinned, runs>>

\* The loop of downloadAll is over: main goes on to DatabaseFactory.save.
DownloadEnd ==
    /\ pc = "download"
    /\ j > Len(entries)
    /\ pc' = "save"
    /\ UNCHANGED <<pending, lastFiles, variant, fs, disk, pinned, status, runs, files, password,
                   salt, iv, entries, nextId, i, j, calls>>

(* ------------------------------- save ---------------------------------- *)

\* Mutant of DbJson: the entries appended to those of the file on disk.
DbJsonAppended ==
    [exists |-> TRUE, salt |-> salt, iv |-> iv, entries |-> disk.entries \o entries]

\* What DatabaseFactory.save / Db.save serialises.
DbJson ==
    IF variant = "Database"
    THEN [exists |-> TRUE, salt |-> salt, iv |-> iv, entries |-> entries]
    ELSE [exists |-> TRUE, salt |-> "", iv |-> "", entries |-> entries]

\* fs.writeFileSync(dbPath, JSON.stringify(dbJson)); main returns.
Save ==
    /\ pc = "save"
    /\ disk' = DbJson
    /\ ProcessEnds("completed")
    /\ UNCHANGED <<variant, fs, pinned, runs, calls>>

(* --------------------------- specification ----------------------------- *)

Next ==
    \/ \E f \in Files, c \in Contents \cup {Absent} : EnvSet(f, c)
    \/ Crash
    \/ \E fl \in TrackedLists, pw \in PasswordChoices,
          s \in SaltChoices, v \in IvChoices : Start(fl, pw, s, v)
    \/ SyncMissing
    \/ SyncAdd
    \/ SyncUnchanged
    \/ SyncChanged
    \/ SyncEnd
    \/ \E n \in NonceChoices : AddPut(n)
    \/ \E n \in NonceChoices : AddPutFails(n)
    \/ UpdateUnpin
    \/ UpdateUnpinFails
    \/ \E n \in NonceChoices : UpdatePut(n)
    \/ \E n \in NonceChoices : UpdatePutFails(n)
    \/ DownloadSkip
    \/ \E o \in OutcomeKinds : DownloadEntry(o)
    \/ DownloadEnd
    \/ Save

\* The current script (symmetric variant).
Spec == Init /\ [][Next]_vars

\* The asymmetric generation of the script.
SpecDb == InitDb /\ [][Next]_vars

\* The current script, run on the db.json an earlier run left.
SpecLater == InitLater /\ [][Next]_vars


(* ------------------- encrypt and decrypt on their own ------------------ *)

\* Buffers to encrypt: every length from the empty one to two blocks and a
\* byte, filled with the lowest or the highest byte value.
Plaintexts ==
    {<< >>} \cup {[k \in 1..n |-> b] : n \in 1..(2 * BlockSize + 1), b \in {0, 255}}

\* A provider (either variant, any password, salt and iv) and a buffer x,
\* held in "a.txt"; "b.txt" is to hold what decrypt returns.
InitCrypto ==
    /\ variant \in {"Database", "Db"}
    /\ password \in (IF variant = "Database" THEN Passwords ELSE {""})
    /\ salt \in (IF variant = "Database" THEN Salts ELSE {""})
    /\ iv \in (IF variant = "Database" THEN Ivs ELSE {""})
    /\ \E x \in Plaintexts : fs = [f \in Files |-> IF f = "a.txt" THEN x ELSE Absent]
    /\ disk = NoDb
    /\ pinned = {}
    /\ pc = "encrypt"
    /\ status = "none"
    /\ runs = 0
    /\ files = << >>
    /\ entries = << >>
    /\ nextId = 0
    /\ i = 0
    /\ j = 0
    /\ calls = << >>
    /\ pending = {}
    /\ lastFiles = NoLast

\* await this.encrypt(x): the payload, kept under its content address.
Encrypts(n) ==
    /\ pc = "encrypt"
    /\ pinned' = {CidOf(encrypt(fs["a.txt"], n))}
    /\ pc' = "decrypt"
    /\ UNCHANGED <<variant, fs, disk, status, runs, files, password, salt, iv,
                   entries, nextId, i, j, calls, pending, lastFiles>>

\* await this.decrypt(payload): a Buffer, or undefined (no file content).
Decrypts ==
    /\ pc = "decrypt"
    /\ \E c \in pinned :
          LET d == decrypt(PayloadAt(c))
          IN  /\ calls' = <<Call("decrypt", c, ~d.err /\ d.defined)>>
              /\ fs' = [fs EXCEPT !["b.txt"] = IF ~d.err /\ d.defined THEN d.data
                                               ELSE Absent]
    /\ pc' = "done"
    /\ UNCHANGED <<variant, disk, pinned, status, runs, files, password, salt,
                   iv, entries, nextId, i, j, pending, lastFiles>>

NextCrypto ==
    \/ \E n \in NonceChoices : Encrypts(n)
    \/ Decrypts

\* encrypt followed by decrypt, for both providers.
SpecCrypto == InitCrypto /\ [][NextCrypto]_vars

(* ------------------------------ clean-db ------------------------------- *)

\* The entries a first run of the asymmetric script saves when it tracked the
\* list fl (no path twice) with the contents c0, ns the session keys drawn.
PriorEntriesDb(fl, c0, ns) ==
    [k \in 1..Len(fl) |->
        [hash |-> calculateHash(c0[fl[k]]),
         cid |-> CidOf(encryptPgp(c0[fl[k]], ns[fl[k]])),
         id |-> k,
         filename |-> fl[k]]]

\* clean-db is started: there is no db.json, or the db.json a run of the sync
\* script (of either generation) saved, with what that run put still pinned.
InitClean ==
    /\ variant \in {"Database", "Db"}
    /\ \E c0 \in [Files -> Contents] :
          /\ fs = c0
          /\ \/ disk = NoDb
             \/ \E fl \in {l \in TrackedLists : \A k, m \in 1..Len(l) : k # m => l[k] # l[m]} :
                   IF variant = "Database"
                   THEN \E pw \in Passwords, s \in Salts, v \in Ivs :
                           disk = [exists |-> TRUE, salt |-> s, iv |-> v,
                                   entries |-> PriorEntries(fl, c0, pw, s, v)]
                   ELSE \E ns \in [Files -> Nonces] :
                           disk = [exists |-> TRUE, salt |-> "", iv |-> "",
                                   entries |-> PriorEntriesDb(fl, c0, ns)]
    /\ pinned = {e.cid : e \in Range(disk.entries)}
    /\ pc = "clean"
    /\ status = "running"
    /\ runs = 0
    /\ files = << >>
    /\ password = ""
    /\ salt = ""
    /\ iv = ""
    /\ entries = << >>
    /\ nextId = 0
    /\ i = 0
    /\ j = 0
    /\ calls = << >>
    /\ pending = {}
    /\ lastFiles = NoLast

\* What JSON.parse of db.json gives clean-db: `entries`.  The symmetric
\* script saves an object {salt, iv, entries}, which has no forEach.
ParsedIsArray == variant = "Db"

\* if (!fs.existsSync(DB_PATH)) { console.warn(...); process.exit() }
CleanNothing ==
    /\ pc = "clean"
    /\ ~disk.exists
    /\ pc' = "idle"
    /\ status' = "nothing"
    /\ UNCHANGED <<variant, fs, disk, pinned, runs, files, password, salt, iv,
                   entries, nextId, i, j, calls, pending, lastFiles>>

\* entries.forEach is not a function: the async main rejects.
CleanTypeError ==
    /\ pc = "clean"
    /\ disk.exists
    /\ ~ParsedIsArray
    /\ pc' = "idle"
    /\ status' = "uncaught"
    /\ UNCHANGED <<variant, fs, disk, pinned, runs, files, password, salt, iv,
                   entries, nextId, i, j, calls, pending, lastFiles>>

\* The synchronous part of main: forEach starts one async callback per entry,
\* each of which issues its pin.rm and suspends at the await; then
\* fs.unlinkSync(DB_PATH).  No completion can be handled before it is over.
CleanRun ==
    /\ pc = "clean"
    /\ disk.exists
    /\ ParsedIsArray
    /\ calls' = [k \in 1..Len(disk.entries) |-> Call("unpin", disk.entries[k].cid, FALSE)]
    /\ pending' = 1..Len(disk.entries)
    /\ disk' = NoDb
    /\ pc' = "clean_wait"
    /\ UNCHANGED <<variant, fs, pinned, status, runs, files, password, salt, iv,
                   entries, nextId, i, j, lastFiles>>

\* One pin.rm settles: it resolves (the cid is unpinned) or rejects (nobody
\* handles the rejection).
UnpinSettles(k, ok) ==
    /\ pc = "clean_wait"
    /\ k \in pending
    /\ pending' = pending \ {k}
    /\ pinned' = IF ok THEN pinned \ {calls[k].cid} ELSE pinned
    /\ calls' = [calls EXCEPT ![k].ok = ok]
    /\ UNCHANGED <<variant, fs, disk, pc, status, runs, files, password, salt,
                   iv, entries, nextId, i, j, lastFiles>>

\* Nothing is left to wait for: the process exits.
CleanExit ==
    /\ pc = "clean_wait"
    /\ pending = {}
    /\ pc' = "idle"
    /\ status' = "cleaned"
    /\ UNCHANGED <<variant, fs, disk, pinned, runs, files, password, salt, iv,
                   entries, nextId, i, j, calls, pending, lastFiles>>

NextClean ==
    \/ CleanNothing
    \/ CleanTypeError
    \/ CleanRun
    \/ \E k \in pending, ok \in BOOLEAN : UnpinSettles(k, ok)
    \/ CleanExit

\* The clean-db script, run once.
SpecClean == InitClean /\ [][NextClean]_vars

(* --------------------- nextId over any manifest ------------------------ *)

\* Ids found in a db.json that is loaded.
LoadedIds == 1..3

\* Paths of entries that are not in the tracked list of the run.
OtherFiles == <<"x.txt", "y.txt", "z.txt">>

\* The sequences of pairwise distinct ids, in any order.
IdLists ==
    {l \in SeqsUpTo(LoadedIds, Cardinality(LoadedIds)) :
        \A k, m \in 1..Len(l) : k # m => l[k] # l[m]}

\* A db.json holding one entry per id of the list, in the list's order.
ManifestOf(ids, v, s, iv0) ==
    [exists |-> TRUE, salt |-> s, iv |-> iv0,
     entries |-> [k \in 1..Len(ids) |->
        [hash |-> calculateHash(<<k>>),
         cid |-> CidOf(IF v = "Database"
                       THEN encryptAes(<<k>>, scryptSync("pw", s), iv0)
                       ELSE encryptPgp(<<k>>, 1)),
         id |-> ids[k],
         filename |-> OtherFiles[k]]]]

\* The script of either generation is about to be run on a db.json whose
\* entries have any distinct positive ids in any order; the tracked files
\* exist and none has an entry.
InitIds ==
    /\ variant \in {"Database", "Db"}
    /\ fs \in [Files -> {<<1>>}]
    /\ \E ids \in IdLists :
          disk = IF variant = "Database"
                 THEN ManifestOf(ids, variant, "5a3c", "0011223344556677")
                 ELSE ManifestOf(ids, variant, "", "")
    /\ pinned = {e.cid : e \in Range(disk.entries)}
    /\ pc = "idle"
    /\ status = "none"
    /\ runs = 0
    /\ files = << >>
    /\ password = ""
    /\ salt = ""
    /\ iv = ""
    /\ entries = << >>
    /\ nextId = 0
    /\ i = 0
    /\ j = 0
    /\ calls = << >>
    /\ pending = {}
    /\ lastFiles = NoLast

\* createDb (the constructor sets nextId) and the Adds of sync.
NextIds ==
    \/ \E fl \in TrackedLists, pw \in PasswordChoices,
          s \in SaltChoices, v \in IvChoices : Start(fl, pw, s, v)
    \/ SyncAdd
    \/ \E n \in NonceChoices : AddPut(n)

\* The constructor and add, on any manifest.
SpecIds == InitIds /\ [][NextIds]_vars

(* ------------------------------ claims --------------------------------- *)

\* The entries of db.json.
Persisted == Range(disk.entries)

\* The ids of a sequence of entries are pairwise distinct.
DistinctIds(es) ==
    \A k, m \in 1..Len(es) : k # m => es[k].id # es[m].id

\* The entry of a sequence that has the filename (0 when none has).
EntryOf(es, f) == FindFilename(es, f)

\* C1: after every completed run, every manifest entry's cid is pinned in the
\* remote store and its hash is the digest of the plaintext whose encrypted
\* form is stored under that cid.
C1_CompletedRunEntriesPinned ==
    (pc = "idle" /\ status = "completed") =>
        \A e \in Persisted :
            /\ e.cid \in pinned
            /\ e.hash = calculateHash(PlaintextAt(e.cid))

\* C2: an error raised while sync processes one tracked file (a put or an
\* unpin that fails) never aborts the run: sync goes on with the next path of
\* the list (and so reaches downloadAll and save).
C2_SyncErrorNeverAborts ==
    [][(/\ pc \in {"add_put", "upd_unpin", "upd_put"}
        /\ Len(calls') = Len(calls) + 1
        /\ ~calls'[Len(calls')].ok)
       => (pc' = "sync" /\ i' = i + 1)]_vars

\* C3: Add never assigns an id that an existing entry has, every id assigned
\* in a run is greater than every id of the manifest the run loaded, and so
\* the ids of the manifest are pairwise distinct in every reachable state.
C3_AddNeverReusesId ==
    /\ DistinctIds(entries)
    /\ DistinctIds(disk.entries)
    /\ pc # "idle" =>
          \A k \in (Len(disk.entries) + 1)..Len(entries) :
              \A d \in Persisted : entries[k].id > d.id


\* sync is at a path that exists locally.
AtLocalFile == pc = "sync" /\ i <= Len(files) /\ fs[files[i]] # Absent

\* C4 (one step of it): sync is at a local file that has an entry whose hash
\* differs from the file's digest, and takes the step to Update's unpin.
C4_Begins ==
    (/\ AtLocalFile
     /\ EntryOf(entries, files[i]) # 0
     /\ entries[EntryOf(entries, files[i])].hash # calculateHash(fs[files[i]])
     /\ pc' # "idle")
    => (pc' = "upd_unpin" /\ calls' = << >> /\ entries' = entries /\ pinned' = pinned)

\* C4 (one step of it): the unpin of an Update that goes on targets the prior
\* cid of the file's entry, and the entry is not yet touched.
C4_Unpins ==
    (pc = "upd_unpin" /\ pc' # "idle")
    => (/\ pc' = "upd_put"
        /\ calls' = <<Call("unpin", entries[EntryOf(entries, files[i])].cid, TRUE)>>
        /\ entries' = entries)

\* C4 (one step of it): when the Update returns, one unpin (of the prior cid)
\* and one put were issued, the entry keeps its id, its cid is the one put
\* returned and is pinned, and its hash is the file's digest.
C4_Completes ==
    (pc = "upd_put" /\ pc' # "idle")
    => LET k   == EntryOf(entries, files[i])
           old == entries[k]
           new == entries'[k]
       IN  /\ pc' = "sync" /\ i' = i + 1
           /\ Len(calls') = 2
           /\ calls'[1] = Call("unpin", old.cid, TRUE)
           /\ calls'[2] = Call("put", new.cid, TRUE)
           /\ new.cid \in pinned'
           /\ PlaintextAt(new.cid) = fs[files[i]]
           /\ new.id = old.id
           /\ new.filename = files[i]
           /\ new.hash = calculateHash(fs[files[i]])
           /\ Len(entries') = Len(entries)

\* C4: for every tracked file that exists locally, has a manifest entry and
\* whose digest differs from the entry's hash, sync's Update issues exactly one
\* unpin, of the entry's prior cid, and exactly one put, and when it returns
\* the entry has its id unchanged, the cid put returned and the new digest.
C4_UpdateReplacesEntry == [][C4_Begins /\ C4_Unpins /\ C4_Completes]_vars

\* An Update has just returned: its unpin and its put are the calls of the item.
C4_Witness ==
    /\ pc = "sync"
    /\ Len(calls) = 2
    /\ calls[1].op = "unpin" /\ calls[1].ok
    /\ calls[2].op = "put" /\ calls[2].ok
    /\ Len(entries) = 2

\* C5: for a tracked file whose digest equals the hash of its manifest entry,
\* sync issues no put and no unpin and leaves the entry (and every entry)
\* unchanged.
C5_UnchangedFileSkipped ==
    [][(/\ AtLocalFile
        /\ EntryOf(entries, files[i]) # 0
        /\ entries[EntryOf(entries, files[i])].hash = calculateHash(fs[files[i]]))
       => (/\ pinned' = pinned
           /\ pc' # "idle" =>
                (pc' = "sync" /\ i' = i + 1 /\ entries' = entries /\ calls' = << >>))]_vars

\* sync has just skipped an unchanged file that is not the only entry.
C5_Witness ==
    /\ pc = "sync"
    /\ i > 1
    /\ calls = << >>
    /\ fs[files[i - 1]] # Absent
    /\ EntryOf(entries, files[i - 1]) # 0
    /\ entries[EntryOf(entries, files[i - 1])].hash = calculateHash(fs[files[i - 1]])
    /\ Len(entries) = 2
    /\ entries[1].hash # entries[2].hash

\* C6 (one step of it): sync is at a local file with no entry and takes the
\* step to Add's put.
C6_Begins ==
    (AtLocalFile /\ EntryOf(entries, files[i]) = 0 /\ pc' # "idle")
    => (pc' = "add_put" /\ calls' = << >> /\ entries' = entries /\ pinned' = pinned)

\* C6 (one step of it): when the Add returns, one put and no unpin were
\* issued, and one entry was appended at the end, with the filename, the
\* digest of the file's content and the pinned cid put returned; the entries
\* that were there are unchanged.
C6_Completes ==
    (pc = "add_put" /\ pc' # "idle")
    => LET new == entries'[Len(entries')]
       IN  /\ pc' = "sync" /\ i' = i + 1
           /\ calls' = <<Call("put", new.cid, TRUE)>>
           /\ pinned' = pinned \cup {new.cid}
           /\ PlaintextAt(new.cid) = fs[files[i]]
           /\ Len(entries') = Len(entries) + 1
           /\ SubSeq(entries', 1, Len(entries)) = entries
           /\ new.filename = files[i]
           /\ new.hash = calculateHash(fs[files[i]])

\* C6: for every tracked file that exists locally and has no manifest entry,
\* sync's Add issues exactly one put and no unpin and appends exactly one
\* entry at the end of the manifest, with that filename, the digest of the
\* file's content and the pinned cid put returned; existing entries are left
\* unchanged.
C6_AddAppendsEntry == [][C6_Begins /\ C6_Completes]_vars

\* An Add has just returned in a manifest that already had an entry.
C6_Witness ==
    /\ pc = "sync"
    /\ Len(calls) = 1
    /\ calls[1].op = "put" /\ calls[1].ok
    /\ Len(entries) = 2
    /\ entries[2].cid = calls[1].cid

\* C7: for an entry whose file is absent when downloadAll reaches it and whose
\* get and decrypt succeed, downloadAll writes a file at that path whose
\* content is the plaintext last synced for the entry (its digest is the
\* entry's hash), for every plaintext, the empty one included.
C7_DownloadRestoresPlaintext ==
    [][(/\ pc = "download"
        /\ j <= Len(entries)
        /\ fs[entries[j].filename] = Absent
        /\ j' = j + 1
        /\ calls' = <<Call("get", entries[j].cid, TRUE),
                      Call("decrypt", entries[j].cid, TRUE)>>)
       => (/\ fs'[entries[j].filename] = PlaintextAt(entries[j].cid)
           /\ calculateHash(fs'[entries[j].filename]) = entries[j].hash)]_vars

\* C8: downloadAll never writes to a path whose file exists when the entry is
\* examined: a get is issued and a file is written only for the entry at
\* hand, and only when its file is absent; every existing file keeps its
\* content.
C8_DownloadNeverOverwrites ==
    [][pc = "download" =>
        /\ \A f \in Files : fs[f] # Absent => fs'[f] = fs[f]
        /\ \A f \in Files : fs'[f] # fs[f] => (j <= Len(entries) /\ f = entries[j].filename)
        /\ (j <= Len(entries) /\ j' = j + 1 /\ calls' # << >>) =>
              (/\ fs[entries[j].filename] = Absent
               /\ \A k \in 1..Len(calls') : calls'[k].cid = entries[j].cid)]_vars

\* downloadAll has just passed an entry whose local file exists and differs
\* from the plaintext stored for the entry.
C8_Witness ==
    /\ pc = "download"
    /\ j > 1
    /\ calls = << >>
    /\ fs[entries[j - 1].filename] # Absent
    /\ fs[entries[j - 1].filename] # PlaintextAt(entries[j - 1].cid)

\* C9: in downloadAll a failure of get or of decrypt for one entry does not
\* abort the phase: the loop goes on with the next entry (and so reaches
\* save).
C9_DownloadFailureIsolated ==
    [][(/\ pc = "download"
        /\ j <= Len(entries)
        /\ fs[entries[j].filename] = Absent
        /\ status' # "crashed"
        /\ \E k \in 1..Len(calls') : ~calls'[k].ok)
       => (pc' = "download" /\ j' = j + 1 /\ entries' = entries)]_vars

\* C10: at every point of any run, a crashed or failed one included, every
\* entry of the manifest persisted on disk has its cid pinned.
C10_PersistedEntriesPinned == \A e \in Persisted : e.cid \in pinned

\* The step in which main's last statement writes db.json and main returns.
IsSaveStep == pc = "save" /\ status' = "completed"

\* C11: within one run db.json is written at most once, by a full overwrite
\* (the file becomes the serialised in-memory manifest, nothing of the old
\* file is kept) that happens only after both sync and downloadAll have
\* completed and that ends the run; every other step leaves db.json as it
\* was when the run started.
C11_ManifestWrittenOnceAtEnd ==
    [][/\ ~IsSaveStep => disk' = disk
       /\ IsSaveStep =>
            /\ i > Len(files) /\ j > Len(entries)
            /\ pc' = "idle"
            /\ disk'.exists
            /\ disk'.entries = entries
            /\ variant = "Database" => (disk'.salt = salt /\ disk'.iv = iv)]_vars

\* A run has passed both phases and is about to write a manifest that
\* differs from the db.json it loaded, which is still on disk.
C11_Witness ==
    /\ pc = "save"
    /\ disk.exists
    /\ disk.entries # << >>
    /\ entries # disk.entries

\* C12: every run that begins sync ends (however it ends, short of being
\* killed from outside) with a persisted manifest that holds exactly the
\* changes the run completed, i.e. db.json's entries are the in-memory entries
\* at the run's last step: an entry for every completed Add, the new cid and
\* hash of every completed Update, the prior state for what failed.
C12_RunPersistsCompletedChanges ==
    [][(pc # "idle" /\ pc' = "idle" /\ status' # "crashed")
       => disk'.entries = entries]_vars

\* The run under way tracks the list the last run tracked; that run completed
\* and no local file was edited since.
RepeatsLastRun == pc # "idle" /\ lastFiles = files

\* C13: when sync is run twice in a row with no change to any local file in
\* between, the second run issues no put and no unpin and leaves the manifest
\* (ids, filenames, cids, hashes and their order) as the first run left it.
C13_SecondRunChangesNothing ==
    [][RepeatsLastRun =>
        /\ \A k \in 1..Len(calls') : calls'[k].op \notin {"put", "unpin"}
        /\ pinned' = pinned
        /\ pc' # "idle" => entries' = entries
        /\ disk'.entries = disk.entries]_vars

\* C14: round trip: for both provider variants and every plaintext x, the
\* empty one and those longer than one cipher block included,
\* decrypt(encrypt(x)) returns exactly x.
C14_RoundTrip == pc = "done" => fs["b.txt"] = fs["a.txt"]

\* The CIDs recorded in the db.json clean-db found: those still in the file,
\* and those of the unpins it dispatched.
RecordedCids ==
    {e.cid : e \in Range(disk.entries)} \cup {calls[k].cid : k \in 1..Len(calls)}

\* C15: clean-db unpins all backups and deletes db.json: whatever db.json the
\* sync script wrote and however the unpin calls interleave and end, when
\* clean-db terminates db.json is absent and no CID recorded in it is still
\* pinned; and db.json is never deleted while a recorded CID is pinned and no
\* unpin has completed for it.
C15_CleanDbUnpinsThenDeletes ==
    [][/\ (pc # "idle" /\ pc' = "idle") =>
            (~disk'.exists /\ RecordedCids' \cap pinned' = {})
       /\ (disk.exists /\ ~disk'.exists) =>
            \A e \in Range(disk.entries) : e.cid \notin pinned']_vars

\* No two entries of a sequence have the same filename.
DistinctFilenames(es) ==
    \A k, m \in 1..Len(es) : k # m => es[k].filename # es[m].filename

\* C16: in every reachable state of any sequence of runs the manifest, in
\* memory and on disk, holds at most one entry per filename, also when the
\* tracked-file list names a path more than once.
C16_OneEntryPerFilename ==
    DistinctFilenames(entries) /\ DistinctFilenames(disk.entries)

\* sync has gone past the second occurrence of a path in the tracked list,
\* and the path has an entry.
C16_Witness ==
    /\ pc = "sync"
    /\ i = 3
    /\ files[1] = files[2]
    /\ fs[files[1]] # Absent
    /\ FindFilename(entries, files[1]) # 0

\* sync is at a path of the tracked list.
AtPath == pc = "sync" /\ i <= Len(files)

\* sync goes past the path without a call and without touching the manifest.
PassesOver ==
    /\ pc' = "sync" /\ i' = i + 1
    /\ calls' = << >>
    /\ entries' = entries
    /\ pinned' = pinned

\* C17: what sync does at a tracked path is determined by (the file exists,
\* the manifest has an entry for the path, the file's digest equals the
\* entry's hash): missing locally -> nothing (with or without an entry);
\* present without entry -> Add; present with entry and equal hash -> Skip;
\* present with entry and different hash -> Update.
C17_SyncDecisionTable ==
    [][(AtPath /\ pc' # "idle") =>
        LET f == files[i]
            k == EntryOf(entries, f)
        IN  IF fs[f] = Absent THEN PassesOver
            ELSE IF k = 0 THEN pc' = "add_put" /\ i' = i /\ entries' = entries
            ELSE IF entries[k].hash = calculateHash(fs[f]) THEN PassesOver
            ELSE pc' = "upd_unpin" /\ i' = i /\ entries' = entries]_vars

\* sync has gone past a path whose file is missing although it has an entry,
\* and the next path of the list will be updated.
C17_Witness ==
    /\ pc = "sync"
    /\ i = 2 /\ Len(files) = 2
    /\ calls = << >>
    /\ fs[files[1]] = Absent
    /\ EntryOf(entries, files[1]) # 0
    /\ fs[files[2]] # Absent
    /\ EntryOf(entries, files[2]) # 0
    /\ entries[EntryOf(entries, files[2])].hash # calculateHash(fs[files[2]])

\* The largest id of a sequence of entries, 0 when there is none.
MaxIdOf(es) ==
    IF es = << >> THEN 0
    ELSE CHOOSE x \in {e.id : e \in Range(es)} : \A e \in Range(es) : e.id <= x

\* C18: for every loaded manifest (distinct positive ids in any order) the
\* first Add of a run assigns max(existing ids) + 1, or 1 when the manifest is
\* empty, and each further Add of the run the previous assigned id + 1.
C18_AddAssignsMaxPlusOne ==
    pc # "idle" =>
        \A k \in (Len(disk.entries) + 1)..Len(entries) :
            entries[k].id = MaxIdOf(disk.entries) + (k - Len(disk.entries))

\* The call just issued, when the step issued one.
IssuedCall == calls'[Len(calls')]

\* C19: within an Update, unpin(old cid) is issued and completes before
\* put(new payload) is issued, and the entry's cid and hash are overwritten
\* only after both calls have succeeded; if the unpin fails, no put is issued
\* and the entry is left unchanged.
C19_UnpinBeforePut ==
    [][/\ pc = "upd_unpin" =>
            \* nothing but the unpin happens here, and the entry stays
            /\ \A k \in 1..Len(calls') : calls'[k].op = "unpin"
            /\ disk' = disk
            /\ pc' # "idle" => entries' = entries
            /\ pc' = "upd_put" =>
                   calls' = <<Call("unpin", entries[EntryOf(entries, files[i])].cid, TRUE)>>
            \* a failed unpin: no put follows
            /\ (Len(calls') = 1 /\ ~IssuedCall.ok) => pc' = "idle"
       /\ pc = "upd_put" =>
            \* the put is issued after the unpin has completed
            /\ calls = <<Call("unpin", entries[EntryOf(entries, files[i])].cid, TRUE)>>
            /\ Len(calls') = 2 => IssuedCall.op = "put"
            \* the entry is overwritten only when the put succeeded too
            /\ (pc' # "idle" /\ entries' # entries) =>
                   (/\ IssuedCall = Call("put", entries'[EntryOf(entries, files[i])].cid, TRUE)
                    /\ IssuedCall.cid \in pinned')
            /\ (Len(calls') = 2 /\ ~IssuedCall.ok) => (pc' = "idle" /\ disk' = disk)]_vars

\* An Update has returned in a manifest of one entry: the unpin of the old
\* cid completed, then the put, and the entry holds the put's cid.
C19_Witness ==
    /\ pc = "sync"
    /\ Len(calls) = 2
    /\ calls[1].op = "unpin" /\ calls[1].ok /\ calls[1].cid \notin pinned
    /\ calls[2].op = "put" /\ calls[2].ok /\ calls[2].cid \in pinned
    /\ Len(entries) = 1
    /\ entries[1].cid = calls[2].cid

\* sync is processing a path of the tracked list (in sync itself, or inside
\* the add or update it called for the path).
ProcessingPath ==
    pc \in {"sync", "add_put", "upd_unpin", "upd_put"} /\ i <= Len(files)

\* C20: processing tracked file f reads and modifies only the manifest
\* entry whose filename is f: an Update triggered for f compares against f's
\* own entry, unpins that entry's cid and overwrites that entry, and every
\* entry with another filename keeps its id, cid and hash.
C20_OnlyOwnEntryTouched ==
    [][(ProcessingPath /\ pc' # "idle") =>
        LET f == files[i]
            k == EntryOf(entries, f)
        IN  /\ \A m \in 1..Len(entries) :
                  entries[m].filename # f => entries'[m] = entries[m]
            /\ (pc = "sync" /\ pc' = "upd_unpin") =>
                  entries[k].hash # calculateHash(fs[f])
            /\ (pc = "sync" /\ k # 0 /\ fs[f] # Absent /\ pc' = "sync") =>
                  entries[k].hash = calculateHash(fs[f])
            /\ (pc = "upd_unpin" /\ calls' # << >>) =>
                  calls'[1].cid = entries[k].cid]_vars

\* The entry is of a path that the tracked-file list of the run does not name.
Untracked(e) == e.filename \notin Range(files)

\* C21 (sync and save): while a run goes on, an entry whose filename is not in
\* the tracked list stays in the manifest with its id, cid and hash, and its
\* cid, if pinned, stays pinned; the manifest the run saves still holds it.
C21_Frame ==
    pc # "idle" =>
        \A k \in 1..Len(entries) :
            Untracked(entries[k]) =>
                /\ pc' # "idle" => (Len(entries') >= k /\ entries'[k] = entries[k])
                /\ entries[k].cid \in pinned => entries[k].cid \in pinned'
                /\ disk' # disk => (Len(disk'.entries) >= k /\ disk'.entries[k] = entries[k])

\* C21 (downloadAll): an untracked entry whose file is absent is fetched, and
\* when get and decrypt succeed its file is written with the stored plaintext.
C21_Restores ==
    (/\ pc = "download" /\ j <= Len(entries)
     /\ Untracked(entries[j])
     /\ fs[entries[j].filename] = Absent
     /\ pc' = "download")
    => /\ j' = j + 1
       /\ calls' # << >> /\ calls'[1].op = "get" /\ calls'[1].cid = entries[j].cid
       /\ (\A k \in 1..Len(calls') : calls'[k].ok) =>
              fs'[entries[j].filename] = PlaintextAt(entries[j].cid)

\* C21: a manifest entry whose filename is not in the tracked-file list is
\* left untouched by sync in every run: it is never removed, its id, cid and
\* hash never change and its cid is never unpinned by a run; downloadAll still
\* restores its file when the file is absent locally.
C21_UntrackedEntryUntouched == [][C21_Frame /\ C21_Restores]_vars

\* The salt and the iv a payload was encrypted under.
SaltOfPayload(cid) == PayloadAt(cid).key[2]

IvOfPayload(cid) == PayloadAt(cid).iv

\* C22: the symmetric secret parameters are fixed for the manifest's
\* lifetime: a run that finds a db.json uses (and so saves) the salt and iv of
\* that file, every entry of the manifest was encrypted under the manifest's
\* salt and iv, and so an entry encrypted under the password of the run is
\* decrypted with the key and iv that encrypted it.
C22_SecretsFixed ==
    /\ \A e \in Range(disk.entries) :
          SaltOfPayload(e.cid) = disk.salt /\ IvOfPayload(e.cid) = disk.iv
    /\ pc # "idle" =>
          /\ disk.exists => (salt = disk.salt /\ iv = disk.iv)
          /\ ~disk.exists => (salt = SaltDraws[runs] /\ iv = IvDraws[runs])
          /\ \A e \in Range(entries) :
                /\ SaltOfPayload(e.cid) = salt /\ IvOfPayload(e.cid) = iv
                /\ PayloadAt(e.cid).key[1] = password =>
                      (/\ PayloadAt(e.cid).key = scryptSync(password, salt)
                       /\ ~decrypt(PayloadAt(e.cid)).err)

\* A second run, on the db.json of the first, is about to fetch and decrypt
\* an entry the first run encrypted under the same password.
C22_Witness ==
    /\ pc = "download"
    /\ runs = 2
    /\ disk.exists
    /\ j <= Len(entries)
    /\ entries[j] \in Persisted
    /\ fs[entries[j].filename] = Absent
    /\ PayloadAt(entries[j].cid).key[1] = password
    /\ salt = disk.salt /\ iv = disk.iv

====
